---- MODULE Spec2Model ----
\* Agent directory and message router of agents-mcp-server:
\* the agents/messages tables (src/src/db.ts), the tool handlers
\* (src/unnamed/part_002, src/src/index.ts) and the registration hook's
\* guarded DELETE + INSERT (src/unnamed/part_001).
EXTENDS Integers, Sequences, FiniteSets, TLC

\* ---------------------------------------------------------------- bounds
MaxCalls == 3
MaxIds == 2
MaxMsgs == 2
MaxLog == 3

\* ---------------------------------------------------------------- values
NULL == "<null>"
Names == {"alice", "bob", "dev"}
AllNames == Names
Groups == {"research", "default"}
PaneIds == {"%1", "%4"}
StablePanes == {"task:1.1"}
PaneArgs == PaneIds \cup {""}
StableArgs == StablePanes \cup {""}
GroupArgs == Groups \cup {"all", "", NULL}
\* the tool calls that may be in flight together
Slots == {1, 2}

VARIABLES agents, messages, msg_seq, id_seq, calls, started, last

vars == <<agents, messages, msg_seq, id_seq, calls, started, last>>

\* JavaScript truthiness of a nullable string column
Truthy(v) == v # NULL /\ v # ""

\* ------------------------------------------------------------ directory
Row(id, name, group, pane, stable) ==
    [id |-> id, name |-> name, group_name |-> group,
     pane_id |-> pane, stable_pane |-> stable]

\* ids are `${name}-${suffix}`; NoId stands for a null / absent id
NoId == <<NULL, 0>>
\* the random suffix is fresh: the next unused one for that name
generateAgentId(name, seq) == <<name, seq[name] + 1>>

\* the null result of a lookup (rows[0] || null)
NoAgent == Row(NoId, NULL, NULL, NULL, NULL)

\* SELECT * FROM agents WHERE name = ? ; rows[0] || null.
\* The SELECT has no ORDER BY: any matching row may come first.
getAgentByName(A, name) ==
    IF \E r \in A : r.name = name
    THEN {r \in A : r.name = name}
    ELSE {NoAgent}

getAgents(A, group) ==
    IF Truthy(group) THEN {r \in A : r.group_name = group} ELSE A

\* INSERT OR REPLACE INTO agents (id, name, group_name, pane_id, ...):
\* the primary key is id; stable_pane is not written and stays NULL.
registerAgent(A, id, name, group, paneId) ==
    {r \in A : r.id # id} \cup {Row(id, name, group, paneId, NULL)}

\* DELETE FROM agents WHERE pane_id = P OR stable_pane = S OR name = N
NaiveDelete(A, name, pane, stable) ==
    {r \in A : ~(r.name = name \/ r.pane_id = pane \/ r.stable_pane = stable)}

\* ... OR pane_id <> '' in place of pane_id = P
GuardedDeleteAnyPane(A, name, pane, stable) ==
    {r \in A : ~(\/ r.name = name
                 \/ (Truthy(pane) /\ Truthy(r.pane_id))
                 \/ (Truthy(stable) /\ r.stable_pane = stable))}

\* ... OR COALESCE(stable_pane, '') = S in place of the guarded comparison
GuardedDeleteNullAsEmpty(A, name, pane, stable) ==
    {r \in A : ~(\/ r.name = name
                 \/ (Truthy(pane) /\ r.pane_id = pane)
                 \/ (IF r.stable_pane = NULL THEN "" ELSE r.stable_pane) = stable)}

\* conditions = name = N; if (P) ... OR pane_id = P; if (S) ... OR stable_pane = S
GuardedDelete(A, name, pane, stable) ==
    {r \in A : ~(\/ r.name = name
                 \/ (Truthy(pane) /\ r.pane_id = pane)
                 \/ (Truthy(stable) /\ r.stable_pane = stable))}

\* plain INSERT: a primary-key conflict fails the statement
InsertOk(A, row) == ~(\E r \in A : r.id = row.id)
Insert(A, row) == IF InsertOk(A, row) THEN A \cup {row} ELSE A

\* DELETE FROM agents WHERE id = ?
DeleteById(A, id) == {r \in A : r.id # id}

\* ---------------------------------------------------------- message log
logMessageReplace(M, seq, type, from, to, channel) ==
    <<[id |-> seq, type |-> type, from_agent |-> from,
       to_agent |-> to, channel |-> channel]>>

\* nextval('msg_seq') then INSERT INTO messages
logMessage(M, seq, type, from, to, channel) ==
    Append(M, [id |-> seq, type |-> type, from_agent |-> from,
               to_agent |-> to, channel |-> channel])

\* ------------------------------------------------------------ the calls
IdleCall ==
    [op |-> "none", pc |-> "idle", name |-> NULL, group |-> NULL,
     pane_id |-> NULL, stable_pane |-> NULL, id |-> NoId, agent |-> NoAgent,
     removed |-> FALSE, result |-> NULL]

\* a finished call's slot keeps only its outcome
Done(k, result) ==
    [IdleCall EXCEPT !.op = k.op, !.pc = "done",
                     !.removed = k.removed, !.result = result]

\* a new call takes the first slot that is not in flight
InFlight(c) == calls[c].pc \notin {"idle", "done"}
Free(c) == ~InFlight(c) /\ \A d \in Slots : d < c => InFlight(d)

\* the most recent whole call and its outcome (sequential specification)
NoCall ==
    [op |-> "none", name |-> NULL, group |-> NULL, pane_id |-> NULL,
     stable_pane |-> NULL, existing |-> NoId, id |-> NoId,
     result |-> NULL, targetGroup |-> NULL, targets |-> {},
     attempts |-> {}, results |-> {}]

Init ==
    /\ agents = {}
    /\ messages = <<>>
    /\ msg_seq = 1
    /\ id_seq = [n \in AllNames |-> 0]
    /\ calls = [c \in Slots |-> IdleCall]
    /\ started = 0
    /\ last = NoCall

agentRegisterIdAlwaysNew(existing, name, seq) == generateAgentId(name, seq)

\* agent_register: resolve the id (reuse the existing row's) and return.
\* The handler writes nothing: the row is written afterwards by the hook.
agentRegisterId(existing, name, seq) ==
    IF existing # NoAgent /\ existing.id # NoId
    THEN existing.id
    ELSE generateAgentId(name, seq)

AgentRegister(c, n, g) ==
    /\ Free(c)
    /\ started < MaxCalls
    /\ \E existing \in getAgentByName(agents, n) :
        /\ calls' = [calls EXCEPT ![c] =
                [IdleCall EXCEPT !.op = "register", !.pc = "registered",
                                 !.name = n, !.group = g,
                                 !.id = agentRegisterId(existing, n, id_seq)]]
        /\ id_seq' = IF agentRegisterId(existing, n, id_seq) # existing.id
                     THEN [id_seq EXCEPT ![n] = @ + 1] ELSE id_seq
    /\ started' = started + 1
    /\ UNCHANGED <<agents, messages, msg_seq, last>>

\* registration completed through db.registerAgent(id, name, group, paneId)
RegisterAgent(c, p) ==
    /\ calls[c].pc = "registered"
    /\ agents' = registerAgent(agents, calls[c].id, calls[c].name,
                               calls[c].group, p)
    /\ calls' = [calls EXCEPT ![c] = Done(calls[c], "ok")]
    /\ UNCHANGED <<messages, msg_seq, id_seq, started, last>>

\* registration completed by the hook: guarded DELETE ...
HookDelete(c, p, s) ==
    /\ calls[c].pc = "registered"
    /\ agents' = GuardedDelete(agents, calls[c].name, p, s)
    /\ calls' = [calls EXCEPT ![c].pc = "insert", ![c].pane_id = p,
                              ![c].stable_pane = s]
    /\ UNCHANGED <<messages, msg_seq, id_seq, started, last>>

\* ... then INSERT INTO agents (id, name, group_name, pane_id, stable_pane)
HookRow(k) ==
    Row(k.id, k.name, k.group, k.pane_id, k.stable_pane)

HookInsert(c) ==
    /\ calls[c].pc = "insert"
    /\ agents' = Insert(agents, HookRow(calls[c]))
    /\ calls' = [calls EXCEPT ![c] =
                   Done(calls[c], IF InsertOk(agents, HookRow(calls[c]))
                                  THEN "ok" ELSE "error")]
    /\ UNCHANGED <<messages, msg_seq, id_seq, started, last>>

deregisterNeverGone(agent) == FALSE

\* agent_deregister: getAgentByName; "already gone" is success
deregisterGone(agent) == agent = NoAgent \/ agent.id = NoId

AgentDeregister(c, n) ==
    /\ Free(c)
    /\ started < MaxCalls
    /\ \E agent \in getAgentByName(agents, n) :
        calls' = [calls EXCEPT ![c] =
            IF deregisterGone(agent)
            THEN [IdleCall EXCEPT !.op = "deregister", !.pc = "done",
                                  !.name = n, !.result = "gone"]
            ELSE [IdleCall EXCEPT !.op = "deregister", !.pc = "select",
                                  !.name = n, !.agent = agent,
                                  !.id = agent.id]]
    /\ started' = started + 1
    /\ UNCHANGED <<agents, messages, msg_seq, id_seq, last>>

\* deregisterAgent: SELECT * FROM agents WHERE id = ?
DeregisterSelect(c) ==
    /\ calls[c].pc = "select"
    /\ calls' = [calls EXCEPT ![c].pc =
                    IF \E r \in agents : r.id = calls[c].id
                    THEN "delete" ELSE "log"]
    /\ UNCHANGED <<agents, messages, msg_seq, id_seq, started, last>>

\* deregisterAgent: DELETE FROM agents WHERE id = ?
DeregisterDelete(c) ==
    /\ calls[c].pc = "delete"
    /\ agents' = DeleteById(agents, calls[c].id)
    /\ calls' = [calls EXCEPT ![c].pc = "log",
                   ![c].removed = (\E r \in agents : r.id = calls[c].id)]
    /\ UNCHANGED <<messages, msg_seq, id_seq, started, last>>

\* logMessage("LEFT", agent.id, ...) and the "Deregistered" report
DeregisterLog(c) ==
    /\ calls[c].pc = "log"
    /\ messages' = logMessage(messages, msg_seq, "LEFT", calls[c].id,
                              NoId, NULL)
    /\ msg_seq' = msg_seq + 1
    /\ calls' = [calls EXCEPT ![c] = Done(calls[c], "deregistered")]
    /\ UNCHANGED <<agents, id_seq, started, last>>

Next ==
    \/ \E c \in Slots, n \in Names, g \in {"default"} : AgentRegister(c, n, g)
    \/ \E c \in Slots, p \in {"", "%4"} : RegisterAgent(c, p)
    \/ \E c \in Slots, p \in {"", "%4"}, s \in StableArgs : HookDelete(c, p, s)
    \/ \E c \in Slots : HookInsert(c)
    \/ \E c \in Slots, n \in Names : AgentDeregister(c, n)
    \/ \E c \in Slots : DeregisterSelect(c)
    \/ \E c \in Slots : DeregisterDelete(c)
    \/ \E c \in Slots : DeregisterLog(c)

Spec == Init /\ [][Next]_vars

\* ------------------------------------------------------------ the router
runSndTargetPaneFirst(pane, stablePane) ==
    IF Truthy(pane) THEN pane ELSE stablePane

\* runSnd: const target = stablePane || pane
runSndTarget(pane, stablePane) ==
    IF Truthy(stablePane) THEN stablePane ELSE pane

\* target.pane_id || ""
OrEmpty(v) == IF Truthy(v) THEN v ELSE ""

notRegistered(sender) == sender = NoAgent \/ sender.id = NoId

senderGroupOf(sender) ==
    IF Truthy(sender.group_name) THEN sender.group_name ELSE "default"

targetGroupOmittedIsAll(group, senderGroup) ==
    IF group = "all" THEN NULL
    ELSE IF Truthy(group) THEN group ELSE NULL

\* group === "all" ? null : (group || senderGroup)
targetGroupOf(group, senderGroup) ==
    IF group = "all" THEN NULL
    ELSE IF Truthy(group) THEN group ELSE senderGroup

broadcastTargetsWithSender(A, name, targetGroup) ==
    LET targets == {a \in getAgents(A, NULL) :
                      Truthy(a.name) /\ Truthy(a.pane_id)}
    IN  IF Truthy(targetGroup)
        THEN {a \in targets : a.group_name = targetGroup}
        ELSE targets

\* agents.filter(a => a && a.name && a.name !== name && a.pane_id),
\* then, if (targetGroup), .filter(a => a.group_name === targetGroup)
broadcastTargets(A, name, targetGroup) ==
    LET targets == {a \in getAgents(A, NULL) :
                      Truthy(a.name) /\ a.name # name /\ Truthy(a.pane_id)}
    IN  IF Truthy(targetGroup)
        THEN {a \in targets : a.group_name = targetGroup}
        ELSE targets

\* the loop's guard: if (target.pane_id || target.stable_pane)
hasPane(a) == Truthy(a.pane_id) \/ Truthy(a.stable_pane)

\* ------------------------------------- whole calls, one call at a time
\* agent_register followed by db.registerAgent(id, name, group, paneId)
Register(n, g, p) ==
    /\ \E existing \in getAgentByName(agents, n) :
        LET id == agentRegisterId(existing, n, id_seq) IN
        /\ id # existing.id => id_seq[n] < MaxIds
        /\ id_seq' = IF id # existing.id THEN [id_seq EXCEPT ![n] = @ + 1]
                     ELSE id_seq
        /\ agents' = registerAgent(agents, id, n, g, p)
        /\ last' = [NoCall EXCEPT !.op = "register", !.name = n,
                      !.group = g, !.pane_id = p, !.existing = existing.id,
                      !.id = id, !.result = "ok"]
    /\ UNCHANGED <<messages, msg_seq, calls, started>>

\* agent_register followed by the hook's guarded DELETE and INSERT
RegisterHook(n, g, p, s) ==
    /\ \E existing \in getAgentByName(agents, n) :
        LET id == agentRegisterId(existing, n, id_seq)
            kept == GuardedDelete(agents, n, p, s)
            row == Row(id, n, g, p, s)
        IN
        /\ id # existing.id => id_seq[n] < MaxIds
        /\ id_seq' = IF id # existing.id THEN [id_seq EXCEPT ![n] = @ + 1]
                     ELSE id_seq
        /\ agents' = Insert(kept, row)
        /\ last' = [NoCall EXCEPT !.op = "register", !.name = n,
                      !.group = g, !.pane_id = p, !.stable_pane = s,
                      !.existing = existing.id, !.id = id,
                      !.result = IF InsertOk(kept, row) THEN "ok"
                                 ELSE "error"]
    /\ UNCHANGED <<messages, msg_seq, calls, started>>

\* agent_deregister
Deregister(n) ==
    /\ \E agent \in getAgentByName(agents, n) :
        IF deregisterGone(agent)
        THEN /\ last' = [NoCall EXCEPT !.op = "deregister", !.name = n,
                           !.result = "gone"]
             /\ UNCHANGED <<agents, messages, msg_seq>>
        ELSE /\ Len(messages) < MaxMsgs
             /\ agents' = DeleteById(agents, agent.id)
             /\ messages' = logMessage(messages, msg_seq, "LEFT", agent.id,
                                       NoId, NULL)
             /\ msg_seq' = msg_seq + 1
             /\ last' = [NoCall EXCEPT !.op = "deregister", !.name = n,
                           !.existing = agent.id, !.id = agent.id,
                           !.result = "deregistered"]
    /\ UNCHANGED <<id_seq, calls, started>>

\* agent_broadcast; each delivery (runSnd) succeeds or fails
Broadcast(n, g) ==
    /\ \E sender \in getAgentByName(agents, n) :
        IF notRegistered(sender)
        THEN /\ last' = [NoCall EXCEPT !.op = "broadcast", !.name = n,
                           !.group = g, !.result = "NotRegistered"]
             /\ UNCHANGED <<messages, msg_seq>>
        ELSE
          LET tg == targetGroupOf(g, senderGroupOf(sender))
              targets == broadcastTargets(agents, n, tg)
              tried == {a \in targets : hasPane(a)}
          IN
          IF targets = {}
          THEN /\ last' = [NoCall EXCEPT !.op = "broadcast", !.name = n,
                             !.group = g, !.existing = sender.id,
                             !.targetGroup = tg,
                             !.result = IF Truthy(tg) THEN "NoAgentsInGroup"
                                        ELSE "NoOtherAgents"]
               /\ UNCHANGED <<messages, msg_seq>>
          ELSE /\ Len(messages) < MaxMsgs
               /\ messages' = logMessage(messages, msg_seq, "BROADCAST",
                                         sender.id, NoId, NULL)
               /\ msg_seq' = msg_seq + 1
               /\ \E ok \in SUBSET tried :
                    last' = [NoCall EXCEPT !.op = "broadcast", !.name = n,
                       !.group = g, !.existing = sender.id, !.targetGroup = tg,
                       !.targets = targets,
                       !.attempts = {<<a.name, runSndTarget(OrEmpty(a.pane_id),
                                                  a.stable_pane)>> : a \in tried},
                       !.results = {<<a.name, a \in ok>> : a \in tried},
                       !.result = "sent"]
    /\ UNCHANGED <<agents, id_seq, calls, started>>

\* registrations and deregistrations, one whole call at a time
SeqNames == {"alice", "bob"}

NextSeq ==
    \/ \E n \in SeqNames, p \in {"", "%4"} : Register(n, "default", p)
    \/ \E n \in SeqNames, p \in {"", "%4"}, s \in StableArgs :
          RegisterHook(n, "default", p, s)
    \/ \E n \in SeqNames : Deregister(n)

SpecSeq == Init /\ [][NextSeq]_vars

\* the router over the directories that registration produces: every
\* name absent, or registered from its own pane
OwnPane(n) == IF n = "alice" THEN "%1" ELSE IF n = "bob" THEN "%2" ELSE "%4"
OwnStable(n) ==
    IF n = "alice" THEN "task:1.1" ELSE IF n = "bob" THEN "task:1.2"
    ELSE "task:1.4"

Registered(n) ==
    {Row(<<n, 1>>, n, g, p, s) :
        g \in Groups, p \in {"", OwnPane(n)}, s \in {"", OwnStable(n)}}

Directories ==
    {{f[n] : n \in Names} \ {NoAgent} :
        f \in {h \in [Names -> {NoAgent} \cup UNION {Registered(n) : n \in Names}] :
                 \A n \in Names : h[n] \in {NoAgent} \cup Registered(n)}}

InitRouter ==
    /\ agents \in Directories
    /\ messages = <<>>
    /\ msg_seq = 1
    /\ id_seq = [n \in AllNames |->
                    IF \E r \in agents : r.name = n THEN 1 ELSE 0]
    /\ calls = [c \in Slots |-> IdleCall]
    /\ started = 0
    /\ last = NoCall

NextRouter ==
    \/ \E n \in Names, g \in GroupArgs : Broadcast(n, g)

SpecRouter == InitRouter /\ [][NextRouter]_vars

\* --------------------------------------- the router, one await at a time
\* agent_broadcast, agent_dm and channel_send as the steps between their
\* awaits: the sender/target lookups, logMessage's nextval and INSERT,
\* and each runSnd from its spawn to its close.
Team ==
    {Row(<<"alice", 1>>, "alice", "research", "%1", "task:1.1"),
     Row(<<"bob", 1>>, "bob", "research", "%2", "task:1.2"),
     Row(<<"carol", 1>>, "carol", "research", "%3", ""),
     Row(<<"dev", 1>>, "dev", "default", "%4", "")}

\* bob has only a stable_pane, dev has no pane at all, carol is absent
Mixed ==
    {Row(<<"alice", 1>>, "alice", "research", "%1", ""),
     Row(<<"bob", 1>>, "bob", "research", "", "task:1.2"),
     Row(<<"dev", 1>>, "dev", "research", "", "")}

IdleSend ==
    [op |-> "none", pc |-> "idle", name |-> NULL, to |-> NULL,
     sender |-> NoId, target |-> NoId, msgid |-> 0, queue |-> <<>>,
     inflight |-> {}, attempts |-> <<>>, results |-> <<>>, count |-> 0,
     names |-> {}, result |-> NULL, message |-> NULL, texts |-> <<>>]

\* the message arguments of the calls
Messages == {"hi", "[bob] hi"}

\* a text is the sequence of the pieces its template puts together
broadcastTextBare(name, message) == <<name, ": ", message>>

\* `[${name}] ${message}`
broadcastText(name, message) == <<"[", name, "] ", message>>

\* `[DM from ${name}] ${message}`
dmText(name, message) == <<"[DM from ", name, "] ", message>>

\* `[#${channel}] ${name}: ${message}`
channelText(channel, name, message) == <<"[#", channel, "] ", name, ": ", message>>

\* the formattedMsg of a call
formattedMsg(k) ==
    CASE k.op = "broadcast" -> broadcastText(k.name, k.message)
      [] k.op = "dm" -> dmText(k.name, k.message)
      [] OTHER -> channelText(k.to, k.name, k.message)

\* the rows of a query come in any order (no ORDER BY)
Orders(S) ==
    {q \in [1..Cardinality(S) -> S] :
        \A i, j \in 1..Cardinality(S) : i # j => q[i] # q[j]}

MaxId(M) ==
    IF M = <<>> THEN 0
    ELSE CHOOSE x \in {M[i].id : i \in DOMAIN M} :
            \A i \in DOMAIN M : M[i].id <= x

nextvalFromMax(M, seq) == [id |-> MaxId(M) + 1, seq |-> seq + 1]

\* SELECT nextval('msg_seq') as id: the sequence's value, then advanced
nextval(M, seq) == [id |-> seq, seq |-> seq + 1]

nextPcDeliverFirst(op, pc) ==
    IF op = "broadcast"
    THEN CASE pc = "start" -> "loop"
           [] pc = "loop" -> "nextval"
           [] pc = "nextval" -> "insert"
           [] OTHER -> "done"
    ELSE CASE pc = "start" -> "nextval"
           [] pc = "nextval" -> "insert"
           [] pc = "insert" -> IF op = "channel" THEN "targets" ELSE "loop"
           [] pc = "targets" -> "loop"
           [] OTHER -> "done"

\* the order of a handler's awaits: logMessage (nextval, INSERT), then
\* the delivery loop; channel_send reads its targets after logging
nextPc(op, pc) ==
    CASE pc = "start" -> "nextval"
      [] pc = "nextval" -> "insert"
      [] pc = "insert" -> IF op = "channel" THEN "targets" ELSE "loop"
      [] pc = "targets" -> "loop"
      [] OTHER -> "done"

resultOfFailureAsNoPane(k) ==
    CASE k.op = "broadcast" -> "sent"
      [] k.op = "channel" -> "ChannelSent"
      [] OTHER -> IF \A i \in DOMAIN k.results : k.results[i][2]
                  THEN "DMSent" ELSE "NoDeliverableAddress"

\* what the handler returns after its loop
resultOf(k) ==
    CASE k.op = "broadcast" -> "sent"
      [] k.op = "channel" -> "ChannelSent"
      [] OTHER -> IF \A i \in DOMAIN k.results : k.results[i][2]
                  THEN "DMSent" ELSE "DMFailed"

\* a call that has returned keeps only its result
Goto(k, pc) ==
    IF pc = "done"
    THEN [IdleSend EXCEPT !.op = k.op, !.pc = "done", !.result = resultOf(k)]
    ELSE [k EXCEPT !.pc = pc]

\* sequence values not yet drawn, less those the calls under way will draw
WillLog(c) == calls[c].pc \in {"loop", "nextval"} /\ calls[c].msgid = 0
CanLog == msg_seq + Cardinality({c \in Slots : WillLog(c)}) <= MaxMsgs

dmNoPaneIdOnly(target) == ~Truthy(target.pane_id)

\* if (!target.pane_id && !target.stable_pane)
dmNoPane(target) == ~Truthy(target.pane_id) /\ ~Truthy(target.stable_pane)

\* getAgents(channel).filter(a => a && a.name && a.name !== name
\*                                && (a.pane_id || a.stable_pane))
channelTargets(A, name, channel) ==
    {a \in getAgents(A, channel) :
        Truthy(a.name) /\ a.name # name /\ hasPane(a)}

mayStartAlways(k) == TRUE

\* for (const target of targets) { ... await runSnd(...) ... }: the next
\* runSnd is spawned once the previous one has closed
mayStart(k) == k.inflight = {}

afterFailureAbort(queue) == <<>>

\* catch (err) { results.push(...) }: the loop goes on with the rest
afterFailure(queue) == queue

\* agent_broadcast up to its first await after the targets are known
AgentBroadcast(c, n, g, msg) ==
    /\ Free(c)
    /\ started < MaxCalls
    /\ started' = started + 1
    /\ \E sender \in getAgentByName(agents, n) :
        IF notRegistered(sender)
        THEN calls' = [calls EXCEPT ![c] =
                [IdleSend EXCEPT !.op = "broadcast", !.pc = "done",
                                 !.name = n, !.to = g,
                                 !.result = "NotRegistered"]]
        ELSE
          LET tg == targetGroupOf(g, senderGroupOf(sender))
              targets == broadcastTargets(agents, n, tg)
          IN
          IF targets = {}
          THEN calls' = [calls EXCEPT ![c] =
                  [IdleSend EXCEPT !.op = "broadcast", !.pc = "done",
                                   !.name = n, !.to = g, !.sender = sender.id,
                                   !.result = IF Truthy(tg)
                                              THEN "NoAgentsInGroup"
                                              ELSE "NoOtherAgents"]]
          ELSE /\ CanLog
               /\ \E q \in Orders(targets) :
                    calls' = [calls EXCEPT ![c] =
                      [IdleSend EXCEPT !.op = "broadcast",
                                       !.pc = nextPc("broadcast", "start"),
                                       !.name = n, !.to = g,
                                       !.sender = sender.id, !.queue = q,
                                       !.count = Cardinality(targets),
                                       !.message = msg]]
    /\ UNCHANGED <<agents, messages, msg_seq, id_seq, last>>

\* agent_dm up to logMessage
AgentDM(c, n, to, msg) ==
    /\ Free(c)
    /\ started < MaxCalls
    /\ started' = started + 1
    /\ \E sender \in getAgentByName(agents, n),
          target \in getAgentByName(agents, to) :
        IF notRegistered(sender)
        THEN calls' = [calls EXCEPT ![c] =
                [IdleSend EXCEPT !.op = "dm", !.pc = "done", !.name = n,
                                 !.to = to, !.result = "NotRegistered"]]
        ELSE IF notRegistered(target)
        THEN calls' = [calls EXCEPT ![c] =
                [IdleSend EXCEPT !.op = "dm", !.pc = "done", !.name = n,
                     !.to = to, !.sender = sender.id,
                     !.names = {a.name : a \in {b \in getAgents(agents, NULL) :
                                                   Truthy(b.name)}},
                     !.result = "TargetNotFound"]]
        ELSE IF dmNoPane(target)
        THEN calls' = [calls EXCEPT ![c] =
                [IdleSend EXCEPT !.op = "dm", !.pc = "done", !.name = n,
                     !.to = to, !.sender = sender.id, !.target = target.id,
                     !.result = "NoDeliverableAddress"]]
        ELSE /\ CanLog
             /\ calls' = [calls EXCEPT ![c] =
                  [IdleSend EXCEPT !.op = "dm", !.pc = nextPc("dm", "start"),
                       !.name = n, !.to = to, !.sender = sender.id,
                       !.target = target.id, !.queue = <<target>>,
                       !.count = 1, !.message = msg]]
    /\ UNCHANGED <<agents, messages, msg_seq, id_seq, last>>

\* channel_send up to logMessage: senderId = sender?.id || name
ChannelSend(c, n, ch, msg) ==
    /\ Free(c)
    /\ started < MaxCalls
    /\ started' = started + 1
    /\ CanLog
    /\ \E sender \in getAgentByName(agents, n) :
        calls' = [calls EXCEPT ![c] =
            [IdleSend EXCEPT !.op = "channel",
                             !.pc = nextPc("channel", "start"),
                             !.name = n, !.to = ch, !.message = msg,
                             !.sender = IF notRegistered(sender)
                                        THEN <<n, 0>> ELSE sender.id]]
    /\ UNCHANGED <<agents, messages, msg_seq, id_seq, last>>

\* logMessage: const id = nextval('msg_seq')
LogNextval(c) ==
    /\ calls[c].pc = "nextval"
    /\ calls' = [calls EXCEPT
                   ![c] = Goto([@ EXCEPT !.msgid = nextval(messages, msg_seq).id],
                               nextPc(calls[c].op, "nextval"))]
    /\ msg_seq' = nextval(messages, msg_seq).seq
    /\ UNCHANGED <<agents, messages, id_seq, started, last>>

LogType(op) ==
    CASE op = "broadcast" -> "BROADCAST"
      [] op = "dm" -> "DM"
      [] OTHER -> "CHANNEL"

\* logMessage: INSERT INTO messages (id, type, from_agent, to_agent, channel, ...)
LogInsert(c) ==
    /\ calls[c].pc = "insert"
    /\ messages' = logMessage(messages, calls[c].msgid, LogType(calls[c].op),
                              calls[c].sender, calls[c].target,
                              IF calls[c].op = "channel" THEN calls[c].to
                              ELSE NULL)
    /\ calls' = [calls EXCEPT ![c] = Goto(@, nextPc(calls[c].op, "insert"))]
    /\ UNCHANGED <<agents, msg_seq, id_seq, started, last>>

\* channel_send: getAgents(channel) and the filter
ChannelTargets(c) ==
    /\ calls[c].pc = "targets"
    /\ \E q \in Orders(channelTargets(agents, calls[c].name, calls[c].to)) :
        calls' = [calls EXCEPT ![c] =
                    Goto([@ EXCEPT !.queue = q, !.count = Len(q)],
                         nextPc(calls[c].op, "targets"))]
    /\ UNCHANGED <<agents, messages, msg_seq, id_seq, started, last>>

\* the loop takes its next target: runSnd spawns snd --pane <target>
SndStart(c) ==
    /\ calls[c].pc = "loop"
    /\ calls[c].queue # <<>>
    /\ mayStart(calls[c])
    /\ LET t == Head(calls[c].queue)
           x == <<t.name, runSndTarget(OrEmpty(t.pane_id), t.stable_pane)>>
       IN  calls' = [calls EXCEPT ![c] =
              IF hasPane(t)
              THEN [@ EXCEPT !.queue = Tail(@),
                             !.inflight = @ \cup {x},
                             !.attempts = Append(@, x),
                             !.texts = Append(@, formattedMsg(calls[c]))]
              ELSE [@ EXCEPT !.queue = Tail(@)]]
    /\ UNCHANGED <<agents, messages, msg_seq, id_seq, started, last>>

pushResultOkOnly(results, name, ok) ==
    IF ok THEN Append(results, <<name, ok>>) ELSE results

\* results.push(`✓ ${target.name}`) / results.push(`✗ ${target.name}: ${err}`)
pushResult(results, name, ok) == Append(results, <<name, ok>>)

\* snd closes: code 0 resolves, anything else rejects
SndClose(c, ok) ==
    /\ calls[c].pc = "loop"
    /\ \E x \in {y \in calls[c].inflight : Len(y) = 2} :
        calls' = [calls EXCEPT ![c] =
            [@ EXCEPT !.inflight = @ \ {x},
                      !.results = pushResult(@, x[1], ok),
                      !.queue = IF ok THEN @ ELSE afterFailure(@)]]
    /\ UNCHANGED <<agents, messages, msg_seq, id_seq, started, last>>

\* the loop is over
LoopEnd(c) ==
    /\ calls[c].pc = "loop"
    /\ calls[c].queue = <<>>
    /\ calls[c].inflight = {}
    /\ calls' = [calls EXCEPT ![c] = Goto(@, nextPc(calls[c].op, "loop"))]
    /\ UNCHANGED <<agents, messages, msg_seq, id_seq, started, last>>

InitSend ==
    /\ agents \in {Team, Mixed}
    /\ messages = <<>>
    /\ msg_seq = 1
    /\ id_seq = [n \in AllNames |-> 0]
    /\ calls = [c \in Slots |-> IdleSend]
    /\ started = 0
    /\ last = NoCall

\* no call is under way
Quiet == \A c \in Slots : ~InFlight(c)

\* broadcasts and channel posts, one call at a time, each call step by step
NextSend ==
    \/ Quiet /\ \E c \in Slots, g \in {"all", NULL}, msg \in Messages :
                   AgentBroadcast(c, "alice", g, msg)
    \/ Quiet /\ \E c \in Slots, ch \in {"research", ""}, msg \in Messages :
                   ChannelSend(c, "alice", ch, msg)
    \/ \E c \in Slots : LogNextval(c)
    \/ \E c \in Slots : LogInsert(c)
    \/ \E c \in Slots : ChannelTargets(c)
    \/ \E c \in Slots : SndStart(c)
    \/ \E c \in Slots, ok \in BOOLEAN : SndClose(c, ok)
    \/ \E c \in Slots : LoopEnd(c)

SpecSend == InitSend /\ [][NextSend]_vars

\* direct messages, the calls overlapping at their awaits
NextDM ==
    \/ \E c \in Slots, n \in {"alice", "carol"}, to \in {"bob", "carol", "dev"},
          msg \in Messages : AgentDM(c, n, to, msg)
    \/ \E c \in Slots : LogNextval(c)
    \/ \E c \in Slots : LogInsert(c)
    \/ \E c \in Slots : SndStart(c)
    \/ \E c \in Slots, ok \in BOOLEAN : SndClose(c, ok)
    \/ \E c \in Slots : LoopEnd(c)

SpecDM == InitSend /\ [][NextDM]_vars

\* broadcasts, channel posts and direct messages, one call at a time
NextText ==
    \/ NextSend
    \/ Quiet /\ \E c \in Slots, n \in {"alice", "carol"},
                      to \in {"bob", "carol", "dev"}, msg \in Messages :
                   AgentDM(c, n, to, msg)

SpecText == InitSend /\ [][NextText]_vars

\* ------------------------- registrations, each agent from its own pane
\* agents registered earlier, from panes nobody else uses
Unrelated ==
    {Row(<<"dev", 1>>, "dev", "default", OwnPane("dev"), OwnStable("dev")),
     Row(<<"carol", 1>>, "carol", "default", "%3", "")}

InitOwn ==
    /\ agents = Unrelated
    /\ messages = <<>>
    /\ msg_seq = 1
    /\ id_seq = [n \in AllNames |-> IF n = "dev" THEN 1 ELSE 0]
    /\ calls = [c \in Slots |-> IdleCall]
    /\ started = 0
    /\ last = NoCall

NextOwn ==
    \/ \E c \in Slots, n \in SeqNames : AgentRegister(c, n, "default")
    \/ \E c \in Slots :
          HookDelete(c, OwnPane(calls[c].name), OwnStable(calls[c].name))
    \/ \E c \in Slots : HookInsert(c)

SpecOwn == InitOwn /\ [][NextOwn]_vars

\* -------------------------------- a directory with whitespace-only panes
Spaces ==
    {Row(<<"alice", 1>>, "alice", "research", "%1", ""),
     Row(<<"bob", 1>>, "bob", "research", "  ", ""),
     Row(<<"carol", 1>>, "carol", "research", "", "  "),
     Row(<<"dev", 1>>, "dev", "research", "  ", "task:1.4")}

InitBlank ==
    /\ agents = Spaces
    /\ messages = <<>>
    /\ msg_seq = 1
    /\ id_seq = [n \in AllNames |-> 0]
    /\ calls = [c \in Slots |-> IdleSend]
    /\ started = 0
    /\ last = NoCall

SpecBlank == InitBlank /\ [][NextSend]_vars

\* ------------------------------------------------ a delivery that hangs
\* the spawned snd neither exits nor errors: runSnd's promise stays
\* pending, as no timer is set on it
SndHang(c) ==
    /\ calls[c].pc = "loop"
    /\ \E x \in {y \in calls[c].inflight : Len(y) = 2} :
        calls' = [calls EXCEPT ![c].inflight =
                     (@ \ {x}) \cup {<<x[1], x[2], "hung">>}]
    /\ UNCHANGED <<agents, messages, msg_seq, id_seq, started, last>>

NextHang ==
    \/ NextSend
    \/ \E c \in Slots : SndHang(c)

SpecHang == InitSend /\ [][NextHang]_vars

\* ------------------------------------------------- reading the message log
\* A message's timestamp is the time of its INSERT: the rows of the log,
\* in the order of their timestamps, are the sequence `messages`.
Reverse(q) == [i \in 1..Len(q) |-> q[Len(q) + 1 - i]]

\* LIMIT n
Limit(q, n) == SubSeq(q, 1, IF n < Len(q) THEN n ELSE Len(q))

\* ORDER BY id ASC
OrderById(q) ==
    CHOOSE r \in [1..Len(q) -> {q[i] : i \in DOMAIN q}] :
        /\ \A i, j \in 1..Len(q) : i < j => r[i].id < r[j].id

getChannelHistoryOldest(M, channel, limit) ==
    LET Match(m) == m.channel = channel
    IN  Limit(SelectSeq(M, Match), limit)

\* SELECT * FROM messages WHERE channel = ? ORDER BY timestamp DESC LIMIT ?
getChannelHistory(M, channel, limit) ==
    LET Match(m) == m.channel = channel
    IN  Limit(Reverse(SelectSeq(M, Match)), limit)

getDmHistoryOneWay(M, agent1, agent2, limit) ==
    LET Match(m) == m.type = "DM" /\ m.from_agent = agent1
                                  /\ m.to_agent = agent2
    IN  Limit(Reverse(SelectSeq(M, Match)), limit)

\* SELECT * FROM messages WHERE type = 'DM' AND ((from_agent = a1 AND
\* to_agent = a2) OR (from_agent = a2 AND to_agent = a1))
\* ORDER BY timestamp DESC LIMIT n
getDmHistory(M, agent1, agent2, limit) ==
    LET Match(m) ==
            m.type = "DM" /\ (\/ (m.from_agent = agent1 /\ m.to_agent = agent2)
                              \/ (m.from_agent = agent2 /\ m.to_agent = agent1))
    IN  Limit(Reverse(SelectSeq(M, Match)), limit)

getMessagesSinceInclusive(M, sinceId, limit) ==
    LET Match(m) == m.id >= sinceId
    IN  Limit(OrderById(SelectSeq(M, Match)), limit)

\* SELECT * FROM messages WHERE id > ? ORDER BY id ASC LIMIT ?
getMessagesSince(M, sinceId, limit) ==
    LET Match(m) == m.id > sinceId
    IN  Limit(OrderById(SelectSeq(M, Match)), limit)

\* myAgent?.id || name
idOrName(agent, name) == IF agent = NoAgent \/ agent.id = NoId
                         THEN <<name, 0>> ELSE agent.id

NoRead ==
    [op |-> "none", name |-> NULL, with |-> NULL, since |-> 0, limit |-> 0,
     rows |-> <<>>, last_id |-> 0]

\* channel_history: the rows of getChannelHistory, reversed for display
ChannelHistory(ch, limit) ==
    /\ last' = [NoRead EXCEPT !.op = "channel_history", !.name = ch,
                  !.limit = limit,
                  !.rows = Reverse(getChannelHistory(messages, ch, limit))]
    /\ UNCHANGED <<agents, messages, msg_seq, id_seq, calls, started>>

\* dm_history: both names resolved to ids, then as channel_history
DmHistory(name, with, limit) ==
    /\ \E myAgent \in getAgentByName(agents, name),
          otherAgent \in getAgentByName(agents, with) :
        last' = [NoRead EXCEPT !.op = "dm_history", !.name = name,
                   !.with = with, !.limit = limit,
                   !.rows = Reverse(getDmHistory(messages,
                                       idOrName(myAgent, name),
                                       idOrName(otherAgent, with), limit))]
    /\ UNCHANGED <<agents, messages, msg_seq, id_seq, calls, started>>

\* messages_since
MessagesSince(sinceId, limit) ==
    /\ LET rows == getMessagesSince(messages, sinceId, limit) IN
        last' = [NoRead EXCEPT !.op = "messages_since", !.since = sinceId,
                   !.limit = limit, !.rows = rows,
                   !.last_id = IF rows = <<>> THEN sinceId
                               ELSE rows[Len(rows)].id]
    /\ UNCHANGED <<agents, messages, msg_seq, id_seq, calls, started>>

\* the message rows that agent_dm and channel_send write
Kinds ==
    {[type |-> "DM", from_agent |-> <<"alice", 1>>, to_agent |-> <<"bob", 1>>,
      channel |-> NULL],
     [type |-> "DM", from_agent |-> <<"bob", 1>>, to_agent |-> <<"alice", 1>>,
      channel |-> NULL],
     [type |-> "DM", from_agent |-> <<"alice", 1>>, to_agent |-> <<"dev", 1>>,
      channel |-> NULL],
     [type |-> "CHANNEL", from_agent |-> <<"alice", 1>>, to_agent |-> NoId,
      channel |-> "research"]}

LogRows ==
    {[id |-> i, type |-> k.type, from_agent |-> k.from_agent,
      to_agent |-> k.to_agent, channel |-> k.channel] :
        i \in 1..MaxLog, k \in Kinds}

\* the logs that overlapping logMessage calls leave: ids are distinct,
\* drawn in order and inserted in any order
Logs ==
    {q \in UNION {[1..n -> LogRows] : n \in 0..MaxLog} :
        \A i, j \in DOMAIN q : i # j => q[i].id # q[j].id}

InitHistory ==
    /\ agents = Mixed
    /\ messages \in Logs
    /\ msg_seq = MaxLog + 1
    /\ id_seq = [n \in AllNames |-> 0]
    /\ calls = [c \in Slots |-> IdleSend]
    /\ started = 0
    /\ last = NoRead

\* one read of each log: a read leaves the tables as they are
NextHistory ==
    /\ last = NoRead
    /\ \/ \E ch \in {"research", "ops"}, limit \in 0..MaxLog :
             ChannelHistory(ch, limit)
       \/ \E name \in {"alice", "bob"}, with \in {"alice", "bob", "dev", "carol"},
             limit \in 0..MaxLog : DmHistory(name, with, limit)
       \/ \E sinceId \in 0..MaxLog, limit \in 0..MaxLog :
             MessagesSince(sinceId, limit)

SpecHistory == InitHistory /\ [][NextHistory]_vars

\* ------------------------------------------------- storage that fails
\* where an operation on the database fails: not at all, when the
\* connection is opened (Database.create), or in a statement
Faults == {"none", "connect", "statement"}

\* withDb: try { return await fn(db) } finally { close }, with no catch:
\* what Database.create or a statement throws goes on to the caller
withDb(fault, value) ==
    IF fault = "none" THEN [raised |-> FALSE, value |-> value]
                      ELSE [raised |-> TRUE, value |-> NULL]

\* the most recent operation on the database and what its caller got
DbCall(op, kind, fault, out) ==
    [op |-> op, kind |-> kind, fault |-> fault,
     raised |-> out.raised, value |-> out.value]

NoDbCall == DbCall("none", "none", "none", withDb("none", NULL))

\* SELECT group_name, COUNT(*) FROM agents GROUP BY group_name
getGroups(A) ==
    {<<g, Cardinality({r \in A : r.group_name = g})>> :
        g \in {r.group_name : r \in A}}

DbRead(op, fault, value) ==
    /\ last' = DbCall(op, "read", fault, withDb(fault, value))
    /\ UNCHANGED <<agents, messages, msg_seq, id_seq, calls, started>>

DbGetAgents(group, fault) ==
    DbRead("getAgents", fault, getAgents(agents, group))

DbGetAgentByName(name, fault) ==
    \E r \in getAgentByName(agents, name) : DbRead("getAgentByName", fault, r)

DbGetGroups(fault) == DbRead("getGroups", fault, getGroups(agents))

DbGetChannelHistory(channel, limit, fault) ==
    DbRead("getChannelHistory", fault,
           getChannelHistory(messages, channel, limit))

DbGetMessagesSince(sinceId, limit, fault) ==
    DbRead("getMessagesSince", fault,
           getMessagesSince(messages, sinceId, limit))

DbRegisterAgent(id, name, group, paneId, fault) ==
    /\ agents' = IF fault = "none"
                 THEN registerAgent(agents, id, name, group, paneId)
                 ELSE agents
    /\ last' = DbCall("registerAgent", "write", fault, withDb(fault, NULL))
    /\ UNCHANGED <<messages, msg_seq, id_seq, calls, started>>

\* SELECT by id, then DELETE when a row was found; returns the row or null
DbDeregisterAgent(id, fault) ==
    /\ agents' = IF fault = "none" THEN DeleteById(agents, id) ELSE agents
    /\ \E r \in IF \E x \in agents : x.id = id
                THEN {x \in agents : x.id = id} ELSE {NoAgent} :
          last' = DbCall("deregisterAgent", "write", fault, withDb(fault, r))
    /\ UNCHANGED <<messages, msg_seq, id_seq, calls, started>>

\* nextval, then INSERT: a failing INSERT leaves the sequence advanced
DbLogMessage(type, from, to, channel, fault) ==
    /\ Len(messages) < MaxMsgs
    /\ msg_seq <= MaxMsgs
    /\ msg_seq' = IF fault = "connect" THEN msg_seq ELSE msg_seq + 1
    /\ messages' = IF fault = "none"
                   THEN logMessage(messages, msg_seq, type, from, to, channel)
                   ELSE messages
    /\ last' = DbCall("logMessage", "write", fault, withDb(fault, msg_seq))
    /\ UNCHANGED <<agents, id_seq, calls, started>>

InitStorage ==
    /\ agents = {}
    /\ messages = <<>>
    /\ msg_seq = 1
    /\ id_seq = [n \in AllNames |-> 0]
    /\ calls = [c \in Slots |-> IdleSend]
    /\ started = 0
    /\ last = NoDbCall

NextStorage ==
    \E fault \in Faults :
        \/ \E group \in {"research", NULL} : DbGetAgents(group, fault)
        \/ \E name \in {"alice", "dev"} : DbGetAgentByName(name, fault)
        \/ DbGetGroups(fault)
        \/ DbGetChannelHistory("research", MaxMsgs, fault)
        \/ \E sinceId \in 0..1 : DbGetMessagesSince(sinceId, MaxMsgs, fault)
        \/ \E name \in {"alice", "bob"}, group \in Groups, paneId \in PaneIds :
              DbRegisterAgent(<<name, 1>>, name, group, paneId, fault)
        \/ \E name \in {"alice", "bob"} : DbDeregisterAgent(<<name, 1>>, fault)
        \/ DbLogMessage("CHANNEL", <<"alice", 1>>, NoId, "research", fault)

SpecStorage == InitStorage /\ [][NextStorage]_vars

\* ------------------------------------- the hook's DELETE on its own
\* rows as the hook and db.registerAgent leave them: pane_id a pane or '',
\* stable_pane a pane, '' or NULL (the column is not written)
Stored(n) ==
    {Row(<<n, 1>>, n, "evening", p, s) :
        p \in {"", "%1", "%4"}, s \in {NULL, "", "task:1.1"}}

Tables ==
    {a \cup b : a \in {{}} \cup {{r} : r \in Stored("alice")},
                b \in {{}} \cup {{r} : r \in Stored("bob")}}

NoDelete ==
    [op |-> "none", name |-> NULL, pane_id |-> NULL, stable_pane |-> NULL,
     before |-> {}]

\* let conditions = ...; DELETE FROM agents WHERE ${conditions}
DeleteWhere(n, p, s) ==
    /\ agents' = GuardedDelete(agents, n, p, s)
    /\ last' = [op |-> "delete", name |-> n, pane_id |-> p,
                stable_pane |-> s, before |-> agents]
    /\ UNCHANGED <<messages, msg_seq, id_seq, calls, started>>

InitDelete ==
    /\ agents \in Tables
    /\ messages = <<>>
    /\ msg_seq = 1
    /\ id_seq = [n \in AllNames |-> 0]
    /\ calls = [c \in Slots |-> IdleCall]
    /\ started = 0
    /\ last = NoDelete

NextDelete ==
    \E n \in {"dev", "alice"}, p \in {"", "%4"}, s \in {"", "task:1.1"} :
        DeleteWhere(n, p, s)

SpecDelete == InitDelete /\ [][NextDelete]_vars

\* ------------------------------------------- the tool-call wrapper
\* what the switch over the tool name yields: a result string that does
\* not start with "{", one that is a JSON object, one that starts with "{"
\* without being JSON (agent_deregister's `${args.name} deregistered ...`
\* for a name starting with "{"), or an error thrown (unknown tool, schema
\* parse, handler)
Outcomes(tool) ==
    CASE tool = "nope" -> {"throw"}
      [] tool = "agent_register" -> {"json", "throw"}
      [] tool = "agent_deregister" -> {"text", "brace", "throw"}
      [] OTHER -> {"text", "json", "throw"}

NoToolCall ==
    [op |-> "none", tool |-> NULL, isError |-> FALSE, meta |-> FALSE,
     metrics |-> <<>>]

\* db.logToolMetric(name, chars, lines, ms, isError)
logToolMetric(T, tool, isError) ==
    Append(T, [tool |-> tool, is_error |-> isError])

\* result.startsWith("{") ? JSON.stringify({...JSON.parse(result), ...meta})
\*                         : `${result}\n---\n_meta: ...`
metaAppended(outcome) == outcome \in {"text", "json"}

\* the CallToolRequestSchema handler: try { switch; logToolMetric(false);
\* append _meta } catch { logToolMetric(true); `Error: ${msg}`, isError }
CallTool(tool, outcome) ==
    /\ started < MaxCalls
    /\ started' = started + 1
    /\ LET T == IF last.op = "none" THEN <<>> ELSE last.metrics
           logged == IF outcome = "throw" THEN T
                     ELSE logToolMetric(T, tool, FALSE)
           thrown == ~metaAppended(outcome)
       IN  last' = [op |-> "tool", tool |-> tool,
                    isError |-> thrown,
                    meta |-> ~thrown,
                    metrics |-> IF thrown
                                THEN logToolMetric(logged, tool, TRUE)
                                ELSE logged]
    /\ UNCHANGED <<agents, messages, msg_seq, id_seq, calls>>

InitTool ==
    /\ agents = {}
    /\ messages = <<>>
    /\ msg_seq = 1
    /\ id_seq = [n \in AllNames |-> 0]
    /\ calls = [c \in Slots |-> IdleCall]
    /\ started = 0
    /\ last = NoToolCall

NextTool ==
    \E tool \in {"agent_register", "agent_deregister", "channel_history",
                 "nope"} :
        \E outcome \in Outcomes(tool) : CallTool(tool, outcome)

SpecTool == InitTool /\ [][NextTool]_vars

\* --------------------------------------------- polling the message log
\* a client that calls messages_since with the last_id of its previous
\* call, 0 at first, and keeps the ids of the messages it was given
NoPoll == [op |-> "none", last_id |-> 0, received |-> <<>>]

IdsOfRows(rows) == [i \in DOMAIN rows |-> rows[i].id]

\* messages_since(since_id = last_id, limit)
Poll(limit) ==
    /\ LET rows == getMessagesSince(messages, last.last_id, limit) IN
        last' = [op |-> "poll",
                 last_id |-> IF rows = <<>> THEN last.last_id
                             ELSE rows[Len(rows)].id,
                 received |-> last.received \o IdsOfRows(rows)]
    /\ UNCHANGED <<agents, messages, msg_seq, id_seq, calls, started>>

InitPoll ==
    /\ agents = Team
    /\ messages = <<>>
    /\ msg_seq = 1
    /\ id_seq = [n \in AllNames |-> 0]
    /\ calls = [c \in Slots |-> IdleSend]
    /\ started = 0
    /\ last = NoPoll

\* direct messages logged by overlapping calls, and the polls
NextPoll ==
    \/ \E c \in Slots : AgentDM(c, "alice", "bob", "hi")
    \/ \E c \in Slots : LogNextval(c)
    \/ \E c \in Slots : LogInsert(c)
    \/ \E c \in Slots : SndStart(c)
    \/ \E c \in Slots, ok \in BOOLEAN : SndClose(c, ok)
    \/ \E c \in Slots : LoopEnd(c)
    \/ \E limit \in {1, MaxMsgs} : Poll(limit)

SpecPoll == InitPoll /\ [][NextPoll]_vars

\* ------------------------------- targets that leave during a delivery loop
InitLeave ==
    /\ agents = Team
    /\ messages = <<>>
    /\ msg_seq = 1
    /\ id_seq = [n \in AllNames |-> 0]
    /\ calls = [c \in Slots |-> IdleSend]
    /\ started = 0
    /\ last = NoCall

\* a broadcast or channel post step by step, and agent_deregister calls of
\* its targets made in between
NextLeave ==
    \/ NextSend
    \/ \E n \in {"bob", "carol"} : Deregister(n)

SpecLeave == InitLeave /\ [][NextLeave]_vars

\* ------------------------------------ leaving and joining again
Pair ==
    {Row(<<"alice", 1>>, "alice", "research", "%1", NULL),
     Row(<<"bob", 1>>, "bob", "research", "%2", NULL)}

InitRejoin ==
    /\ agents = Pair
    /\ messages = <<>>
    /\ msg_seq = 1
    /\ id_seq = [n \in AllNames |-> IF n \in SeqNames THEN 1 ELSE 0]
    /\ calls = [c \in Slots |-> IdleSend]
    /\ started = 0
    /\ last = NoRead

\* direct messages between alice and bob, deregistrations, registrations
\* and dm_history reads, one call at a time
NextRejoin ==
    \/ Quiet /\ \E c \in Slots, n \in SeqNames, to \in SeqNames :
                   n # to /\ AgentDM(c, n, to, "hi")
    \/ \E c \in Slots : LogNextval(c)
    \/ \E c \in Slots : LogInsert(c)
    \/ \E c \in Slots : SndStart(c)
    \/ \E c \in Slots, ok \in BOOLEAN : SndClose(c, ok)
    \/ \E c \in Slots : LoopEnd(c)
    \/ Quiet /\ \E n \in SeqNames : Deregister(n)
    \/ Quiet /\ \E n \in SeqNames : Register(n, "research", OwnPane(n))
    \/ Quiet /\ \E n \in SeqNames, with \in SeqNames, limit \in {1, MaxMsgs} :
                   n # with /\ DmHistory(n, with, limit)

SpecRejoin == InitRejoin /\ [][NextRejoin]_vars

\* =============================================================== claims
NonEmpty(v) == v # NULL /\ v # ""

RowsNamed(A, n) == {r \in A : r.name = n}

\* the row a guarded delete for (n, p, s) is allowed to remove
Collides(r, n, p, s) ==
    \/ r.name = n
    \/ (NonEmpty(p) /\ r.pane_id = p)
    \/ (NonEmpty(s) /\ r.stable_pane = s)

\* C1: a registration of (N, P, S) removes only rows named N, rows whose
\* pane_id is the non-empty P and rows whose stable_pane is the non-empty
\* S; with S empty, the rows of other names with an empty stable_pane
\* (and no pane_id collision) are still there after its delete.
C1_GuardedDeleteOnly ==
    [][\A c \in Slots :
        /\ (calls[c].pc = "registered" /\ calls'[c].pc = "insert") =>
              /\ \A r \in agents \ agents' :
                    Collides(r, calls'[c].name, calls'[c].pane_id,
                             calls'[c].stable_pane)
              /\ calls'[c].stable_pane = "" =>
                    \A r \in agents :
                        (/\ r.name # calls'[c].name
                         /\ r.stable_pane = ""
                         /\ ~(NonEmpty(calls'[c].pane_id)
                              /\ r.pane_id = calls'[c].pane_id))
                        => r \in agents'
        /\ (calls[c].pc \in {"registered", "insert"} /\ calls'[c].pc = "done") =>
              \A r \in agents \ agents' : r.name = calls[c].name
      ]_vars

C1_Witness ==
    \E c \in Slots :
        /\ calls[c].op = "register" /\ calls[c].pc = "insert"
        /\ calls[c].pane_id = "%4" /\ calls[c].stable_pane = ""
        /\ Cardinality({r \in agents : r.name # calls[c].name
                                        /\ r.stable_pane = ""}) >= 2

\* C2: no two rows with different names hold the same non-empty pane_id,
\* and no two rows with different names hold the same non-empty
\* stable_pane, in any reachable state of the directory.
C2_NoSharedPane ==
    \A r1, r2 \in agents :
        r1.name # r2.name =>
            /\ ~(NonEmpty(r1.pane_id) /\ r1.pane_id = r2.pane_id)
            /\ ~(NonEmpty(r1.stable_pane) /\ r1.stable_pane = r2.stable_pane)

\* C3: the directory holds at most one row for any agent name, whatever
\* ids the rows were written with.
C3_OneRowPerName ==
    \A r1, r2 \in agents : r1.name = r2.name => r1 = r2

\* C4: registering a name that already has a row (one whole call after the
\* other, no deregister in between) leaves exactly one row for the name,
\* with the id of the earlier registration and the pane fields of this
\* call; an id is newly generated only when the name had no row.
C4_ReRegisterKeepsId ==
    last.op = "register" =>
        /\ last.result = "ok"
        /\ last.existing # NoId =>
              /\ last.id = last.existing
              /\ RowsNamed(agents, last.name) =
                    {Row(last.existing, last.name, last.group,
                         last.pane_id, last.stable_pane)}
        /\ last.id # last.existing => last.existing = NoId

C4_Witness ==
    /\ last.op = "register"
    /\ last.existing # NoId
    /\ last.pane_id = "%4"
    /\ last.stable_pane = "task:1.1"
    /\ Cardinality(agents) = 2

\* C5: once agent_register has returned for a name, the directory holds a
\* row for that name (until it is deregistered or replaced by a colliding
\* registration; here no other call has been made at all).
C5_RowAfterRegister ==
    \A c \in Slots :
        (started = 1 /\ calls[c].op = "register")
            => RowsNamed(agents, calls[c].name) # {}

\* C6: the record a deregister call reports as removed is the row that
\* this very call removed (read and delete act as one step), so no row is
\* reported as removed by two deregister calls.
C6_DeregisterAtomic ==
    \A c \in Slots :
        (/\ calls[c].op = "deregister"
         /\ calls[c].pc = "done"
         /\ calls[c].result = "deregistered")
            => calls[c].removed

\* C7: deregistering a name that has no row reports success and changes
\* neither the directory nor the message log; after any deregister the
\* name has no row, so a second deregister in a row changes nothing.
C7_IdempotentLeave ==
    /\ [][(last'.op = "deregister" /\ RowsNamed(agents, last'.name) = {}) =>
            /\ last'.result = "gone"
            /\ agents' = agents
            /\ messages' = messages
            /\ msg_seq' = msg_seq]_vars
    /\ [](last.op = "deregister" => RowsNamed(agents, last.name) = {})

C7_Witness ==
    /\ last.op = "deregister"
    /\ last.result = "gone"
    /\ \E i \in 1..Len(messages) :
          messages[i].type = "LEFT" /\ messages[i].from_agent[1] = last.name

\* the address rule of the specification: stable_pane if non-empty,
\* otherwise pane_id if non-empty, otherwise none
ResolvedAddress(a) ==
    IF NonEmpty(a.stable_pane) THEN a.stable_pane
    ELSE IF NonEmpty(a.pane_id) THEN a.pane_id ELSE NULL

SenderRow == CHOOSE r \in agents : r.id = last.existing

BroadcastRan ==
    last.op = "broadcast" /\ last.result # "NotRegistered"

\* the rows of the requested scope: sender's group when the group is
\* omitted, every group for "all", the named group otherwise
InScope(a) ==
    IF last.group = "all" THEN TRUE
    ELSE IF NonEmpty(last.group) THEN a.group_name = last.group
    ELSE a.group_name = SenderRow.group_name

\* C8: the target set of a broadcast is exactly the rows, other than the
\* sender's, in the requested scope whose resolved address (stable_pane,
\* else pane_id) is non-null; a row with only a stable_pane is a target.
C8_TargetsResolvable ==
    BroadcastRan =>
        last.targets = {a \in agents :
                          /\ a.name # last.name
                          /\ InScope(a)
                          /\ ResolvedAddress(a) # NULL}

\* C9: a broadcast by S never has S among its targets, never attempts a
\* delivery to S and never lists S in its results, whatever the scope.
C9_SenderExcluded ==
    last.op = "broadcast" =>
        /\ \A a \in last.targets : a.name # last.name
        /\ \A x \in last.attempts : x[1] # last.name
        /\ \A x \in last.results : x[1] # last.name

C9_Witness ==
    /\ last.op = "broadcast"
    /\ last.result = "sent"
    /\ NonEmpty(SenderRow.pane_id)
    /\ InScope(SenderRow)
    /\ last.group = "all"

\* C10: without a group the targets are the deliverable agents of the
\* sender's own group; with "all" those of every group; with a group name
\* those of exactly that group.
Candidates == {a \in agents : a.name # last.name /\ NonEmpty(a.pane_id)}

C11_OmittedGroupIsAll ==
    (BroadcastRan /\ last.group = NULL) => last.targets = Candidates

\* C17: a broadcast whose sender has no row, or a row with neither a
\* pane_id nor a stable_pane, returns NotRegistered instead of sending.
C17_SenderNeedsAddress ==
    (/\ last.op = "broadcast"
     /\ \A r \in RowsNamed(agents, last.name) :
            ~NonEmpty(r.pane_id) /\ ~NonEmpty(r.stable_pane))
        => last.result = "NotRegistered"

\* C18: a broadcast with no target answers "no other agents online"
\* exactly when no agent other than the sender is registered, and "no
\* agents in group X" when others are registered but none is in scope.
C18_EmptyTargetResult ==
    (last.op = "broadcast"
        /\ last.result \in {"NoOtherAgents", "NoAgentsInGroup"})
        => (last.result = "NoOtherAgents"
                <=> {a \in agents : a.name # last.name} = {})

\* the call's loop has made its last step and the handler is about to return
LoopOver(k) == k.pc = "loop" /\ k.queue = <<>> /\ k.inflight = {}

AttemptNames(k) == {k.attempts[i][1] : i \in DOMAIN k.attempts}

\* C12: in a broadcast a failed delivery does not abort the call: every
\* target, also those after the failing one, gets its delivery attempt and
\* its own entry in the results, and the call returns a normal result.
C12_ContinueOnFailure ==
    \A c \in Slots :
        /\ (calls[c].op = "broadcast" /\ LoopOver(calls[c])) =>
              /\ Cardinality(AttemptNames(calls[c])) = calls[c].count
              /\ Len(calls[c].attempts) = calls[c].count
              /\ Len(calls[c].results) = calls[c].count
              /\ \A i \in DOMAIN calls[c].results :
                    calls[c].results[i][1] = calls[c].attempts[i][1]
        /\ (calls[c].op = "broadcast" /\ calls[c].pc = "done") =>
              calls[c].result \in {"sent", "NotRegistered",
                                   "NoAgentsInGroup", "NoOtherAgents"}

C12_Witness ==
    \E c \in Slots :
        /\ calls[c].op = "broadcast" /\ LoopOver(calls[c])
        /\ calls[c].count = 3
        /\ calls[c].results[1][2]
        /\ ~calls[c].results[2][2]
        /\ calls[c].results[3][2]

\* C13: within one broadcast or channel_send call at most one delivery is
\* in flight, and it is started only when every earlier delivery of the
\* call has completed (succeeded or failed).
C13_SequentialDelivery ==
    \A c \in Slots :
        calls[c].op \in {"broadcast", "channel"} =>
            /\ Cardinality(calls[c].inflight) <= 1
            /\ calls[c].inflight # {} =>
                  Len(calls[c].results) = Len(calls[c].attempts) - 1
            /\ calls[c].inflight = {} =>
                  Len(calls[c].results) = Len(calls[c].attempts)

C13_Witness ==
    \E c \in Slots :
        /\ calls[c].op = "channel"
        /\ Len(calls[c].attempts) = 2
        /\ Len(calls[c].results) = 1
        /\ ~calls[c].results[1][2]
        /\ calls[c].inflight # {}

\* the log entries written by a call
Entries(k, type) ==
    {i \in DOMAIN messages :
        messages[i].id = k.msgid /\ messages[i].type = type}

\* C14: a broadcast with at least one target writes exactly one BROADCAST
\* entry whatever the number of targets, and the entry is in the log
\* before the first delivery attempt of the call begins.
C14_LogOnceBeforeDelivery ==
    /\ \A c \in Slots :
        calls[c].op = "broadcast" =>
            /\ Cardinality(Entries(calls[c], "BROADCAST")) <= 1
            /\ calls[c].attempts # <<>> =>
                  Cardinality(Entries(calls[c], "BROADCAST")) = 1
            /\ LoopOver(calls[c]) =>
                  Cardinality(Entries(calls[c], "BROADCAST")) = 1
    /\ Cardinality({i \in DOMAIN messages : messages[i].type = "BROADCAST"})
          <= started

C14_Witness ==
    \E c \in Slots :
        /\ calls[c].op = "broadcast"
        /\ calls[c].count = 3
        /\ Len(calls[c].attempts) = 1
        /\ calls[c].inflight # {}
        /\ Len(messages) = 2

\* C15: a direct message that reports success has written exactly one DM
\* entry, from the sender's id to the target's id, and has made exactly
\* one delivery attempt, to the target's resolved address.
C15_DmOneLogOneDelivery ==
    \A c \in Slots :
        (/\ calls[c].op = "dm"
         /\ LoopOver(calls[c])
         /\ \A i \in DOMAIN calls[c].results : calls[c].results[i][2])
        =>
        /\ Cardinality(Entries(calls[c], "DM")) = 1
        /\ \A i \in Entries(calls[c], "DM") :
              /\ \E r \in RowsNamed(agents, calls[c].name) :
                    messages[i].from_agent = r.id
              /\ \E r \in RowsNamed(agents, calls[c].to) :
                    messages[i].to_agent = r.id
        /\ Cardinality({i \in DOMAIN messages :
                            messages[i].id = calls[c].msgid}) = 1
        /\ Len(calls[c].attempts) = 1
        /\ \E r \in RowsNamed(agents, calls[c].to) :
              calls[c].attempts[1] = <<calls[c].to, ResolvedAddress(r)>>

C15_Witness ==
    \E c \in Slots :
        /\ calls[c].op = "dm" /\ LoopOver(calls[c])
        /\ calls[c].results = <<<<"bob", TRUE>>>>
        /\ \E r \in RowsNamed(agents, "bob") :
              NonEmpty(r.pane_id) /\ NonEmpty(r.stable_pane)

\* C16: a direct message to a name without a row answers TargetNotFound
\* with the names of all registered agents; to a row with neither a
\* stable_pane nor a pane_id it answers NoDeliverableAddress; a target
\* with only a stable_pane is deliverable and gets neither answer.
C16_DmErrors ==
    \A c \in Slots :
        (/\ calls[c].op = "dm"
         /\ calls[c].to # NULL
         /\ RowsNamed(agents, calls[c].name) # {})
        =>
        LET T == RowsNamed(agents, calls[c].to) IN
        /\ T = {} =>
              /\ calls[c].result = "TargetNotFound"
              /\ calls[c].names = {a.name : a \in agents}
        /\ (T # {} /\ \A r \in T : ResolvedAddress(r) = NULL) =>
              calls[c].result = "NoDeliverableAddress"
        /\ (\E r \in T : ResolvedAddress(r) # NULL) =>
              calls[c].result \notin {"TargetNotFound", "NoDeliverableAddress"}

C16_Witness ==
    \E c, d \in Slots :
        /\ calls[c].op = "dm" /\ calls[c].to = "bob"
        /\ calls[c].inflight = {<<"bob", "task:1.2">>}
        /\ \A r \in RowsNamed(agents, "bob") : ~NonEmpty(r.pane_id)
        /\ calls[d].op = "dm" /\ calls[d].result = "NoDeliverableAddress"

\* C19: channel_send attempts delivery to exactly the agents whose group
\* equals the channel name, other than the sender, that have a resolvable
\* address, goes on after a failed delivery, and reports as its count the
\* number of recipients attempted.
C19_ChannelRecipients ==
    \A c \in Slots :
        (calls[c].op = "channel" /\ LoopOver(calls[c])) =>
            /\ AttemptNames(calls[c]) =
                  {a.name : a \in {b \in agents :
                                      /\ b.group_name = calls[c].to
                                      /\ b.name # calls[c].name
                                      /\ ResolvedAddress(b) # NULL}}
            /\ Len(calls[c].attempts) = calls[c].count
            /\ Len(calls[c].results) = calls[c].count

\* the message ids handed out so far
Assigned ==
    {messages[i].id : i \in DOMAIN messages}
        \cup {calls[c].msgid : c \in {d \in Slots : calls[d].msgid # 0}}

\* C20: message ids are unique and strictly increasing in the order in
\* which logMessage assigns them, under any interleaving of the calls: no
\* two message rows share an id and an assigned id is never assigned again.
C20_MessageIdsUnique ==
    /\ [][\A c \in Slots :
            (calls[c].pc = "nextval" /\ calls'[c].pc = "insert") =>
                \A x \in Assigned : calls'[c].msgid > x]_vars
    /\ [](\A i, j \in DOMAIN messages :
            i # j => messages[i].id # messages[j].id)

C20_Witness ==
    /\ Len(messages) = 2
    /\ messages[1].id > messages[2].id

\* C24: the address a delivery is made to is the record's stable_pane
\* whenever that is non-empty, whatever the pane_id; otherwise its pane_id
\* when non-empty; a record with neither gets no delivery attempt.
C24_AddressPrecedence ==
    \A c \in Slots :
        \A i \in DOMAIN calls[c].attempts :
            \E r \in RowsNamed(agents, calls[c].attempts[i][1]) :
                /\ ResolvedAddress(r) # NULL
                /\ calls[c].attempts[i][2] = ResolvedAddress(r)

C24_Witness ==
    \E c \in Slots :
        /\ calls[c].op = "broadcast"
        /\ Len(calls[c].attempts) = 3
        /\ \E i, j \in DOMAIN calls[c].attempts :
              /\ calls[c].attempts[i] = <<"bob", "task:1.2">>
              /\ calls[c].attempts[j] = <<"dev", "%4">>

\* C27: while the row of an already registered agent is re-written with
\* its pane info, a lookup by the name finds its row at every point of the
\* update: no step of the update leaves the name absent from the directory.
C27_FindableDuringUpdate ==
    [][\A c \in Slots :
        (/\ calls[c].op = "register"
         /\ calls[c].pc = "registered"
         /\ calls'[c].pc # "registered"
         /\ Cardinality(RowsNamed(agents, calls[c].name)) = 1)
            => RowsNamed(agents', calls[c].name) # {}]_vars

C28_NoClobber ==
    /\ Unrelated \subseteq agents
    /\ Quiet =>
          \A n \in SeqNames : id_seq[n] > 0 => RowsNamed(agents, n) # {}

C28_Witness ==
    /\ Quiet
    /\ started >= 2
    /\ RowsNamed(agents, "alice") # {}
    /\ RowsNamed(agents, "bob") # {}
    /\ Unrelated \subseteq agents

\* null, empty or made of whitespace only
Blank(v) == v \in {NULL, "", "  "}

\* C25: a pane_id or stable_pane made of whitespace only counts as absent:
\* no delivery is made to such an address, and a record whose two pane
\* fields are each whitespace-only, empty or null is not a delivery target.
C25_WhitespaceIsAbsent ==
    \A c \in Slots :
        \A i \in DOMAIN calls[c].attempts :
            /\ ~Blank(calls[c].attempts[i][2])
            /\ \E r \in RowsNamed(agents, calls[c].attempts[i][1]) :
                  ~Blank(r.pane_id) \/ ~Blank(r.stable_pane)

\* the steps a call can take by itself
CallStep(c) ==
    \/ LogNextval(c) \/ LogInsert(c) \/ ChannelTargets(c)
    \/ SndStart(c) \/ SndClose(c, TRUE) \/ SndClose(c, FALSE) \/ LoopEnd(c)

\* C26: a delivery in which snd neither exits nor errors is given up after
\* a bounded wait and counted as failed for that target only: a call with
\* such a delivery is never stuck, it can still go on to its next target
\* or return.
C26_HungDeliveryGivenUp ==
    \A c \in Slots :
        (\E x \in calls[c].inflight : Len(x) = 3) => ENABLED CallStep(c)

\* the last n elements of q, all of q when it has fewer
Newest(q, n) == SubSeq(q, IF n < Len(q) THEN Len(q) - n + 1 ELSE 1, Len(q))

\* the ids a name stands for in dm_history
IdsOf(name) == {idOrName(a, name) : a \in getAgentByName(agents, name)}

\* a DM between a and b, in either direction
Between(m, a, b) ==
    /\ m.type = "DM"
    /\ <<m.from_agent, m.to_agent>> \in {<<a, b>>, <<b, a>>}

InChannel(ch) == LET Match(m) == m.channel = ch IN SelectSeq(messages, Match)

DmsBetween(a, b) == LET Match(m) == Between(m, a, b) IN SelectSeq(messages, Match)

Range(q) == {q[i] : i \in DOMAIN q}

\* C21: channel_history and dm_history present the `limit` most recently
\* logged matching messages, all of them when fewer exist, oldest first: the
\* presented rows are the tail of the matching rows in the order of logging.
C21_HistoryNewestOldestFirst ==
    /\ last.op = "channel_history" =>
          last.rows = Newest(InChannel(last.name), last.limit)
    /\ last.op = "dm_history" =>
          \E a \in IdsOf(last.name), b \in IdsOf(last.with) :
              last.rows = Newest(DmsBetween(a, b), last.limit)

C21_Witness ==
    /\ last.op = "channel_history"
    /\ last.limit = 2
    /\ Len(InChannel(last.name)) = 3
    /\ Len(last.rows) = 2
    /\ last.rows = <<messages[2], messages[3]>>
    /\ messages[2].id > messages[3].id

\* C22: dm_history of A and B matches the DM rows from A to B and from B to
\* A and no other row: every presented row is such a row, none is missing
\* when the limit does not cut, and the two orders of the names give the
\* same set of rows.
C22_DmHistoryBothDirections ==
    last.op = "dm_history" =>
        \E a \in IdsOf(last.name), b \in IdsOf(last.with) :
            /\ \A m \in Range(last.rows) : Between(m, a, b)
            /\ last.limit >= Len(messages) =>
                  Range(last.rows) = {m \in Range(messages) : Between(m, a, b)}
            /\ Range(last.rows) =
                  Range(Reverse(getDmHistory(messages, b, a, last.limit)))

C22_Witness ==
    /\ last.op = "dm_history"
    /\ last.name = "bob"
    /\ last.with = "alice"
    /\ Len(messages) = 3
    /\ Len(last.rows) = 2
    /\ last.rows[1].from_agent = <<"alice", 1>>
    /\ last.rows[2].from_agent = <<"bob", 1>>
    /\ \E m \in Range(messages) : m.to_agent = <<"dev", 1>>

\* C23: messages_since returns at most `limit` messages, each with an id
\* above since_id, in ascending order of id, with no stored message between
\* the first and the last returned left out; last_id is the id of the last
\* returned message, or since_id when none is returned.
C23_MessagesSince ==
    last.op = "messages_since" =>
        LET rows == last.rows IN
        /\ Len(rows) <= last.limit
        /\ \A i \in DOMAIN rows : rows[i] \in Range(messages)
                                  /\ rows[i].id > last.since
        /\ \A i, j \in DOMAIN rows : i < j => rows[i].id < rows[j].id
        /\ \A m \in Range(messages) :
              (m.id > last.since /\ rows # <<>> /\ m.id < rows[Len(rows)].id)
                  => m \in Range(rows)
        /\ (Len(rows) < last.limit) =>
              \A m \in Range(messages) : m.id > last.since => m \in Range(rows)
        /\ last.last_id = IF rows = <<>> THEN last.since ELSE rows[Len(rows)].id

C23_Witness ==
    /\ last.op = "messages_since"
    /\ last.since = 1
    /\ last.limit = 1
    /\ Len(messages) = 3
    /\ messages[1].id = 3
    /\ messages[2].id = 1
    /\ Len(last.rows) = 1
    /\ last.rows[1] = messages[3]
    /\ last.last_id = 2

\* C30: when the database cannot be reached or a statement fails, a read
\* (getAgents, getAgentByName, getGroups, the histories, getMessagesSince)
\* gives its caller an empty result and raises nothing, and a write
\* (registerAgent, deregisterAgent, logMessage) reports the failure.
C30_ReadsDegradeWritesReport ==
    last.fault # "none" =>
        /\ last.kind = "read" => ~last.raised
        /\ last.kind = "write" => last.raised

\* the rows the last DELETE removed, and those the predicate with all three
\* fields OR-ed would have removed from the same table
GuardedGone == last.before \ agents
NaiveGone ==
    last.before \ NaiveDelete(last.before, last.name, last.pane_id,
                              last.stable_pane)

\* a row that only a comparison with an empty supplied field matches
OnlyByEmpty(r) ==
    /\ r.name # last.name
    /\ ~(Truthy(last.pane_id) /\ r.pane_id = last.pane_id)
    /\ ~(Truthy(last.stable_pane) /\ r.stable_pane = last.stable_pane)
    /\ \/ (last.pane_id = "" /\ r.pane_id = "")
       \/ (last.stable_pane = "" /\ r.stable_pane = "")

\* C33 as stated: whenever a supplied field is empty, the guarded and the
\* naive predicate delete different sets of rows.
C33_DifferWheneverEmpty ==
    (last.op = "delete" /\ (last.pane_id = "" \/ last.stable_pane = ""))
        => GuardedGone # NaiveGone

\* C33: the guarded predicate deletes a subset of what the naive one
\* deletes, and the two differ exactly when some row is matched by nothing
\* but the comparison of an empty supplied field with an empty column.
C33_DifferOnEmptyColumns ==
    last.op = "delete" =>
        /\ GuardedGone \subseteq NaiveGone
        /\ (GuardedGone # NaiveGone) <=> (\E r \in last.before : OnlyByEmpty(r))
        /\ NaiveGone \ GuardedGone = {r \in last.before : OnlyByEmpty(r)}

C33_Witness ==
    /\ last.op = "delete"
    /\ last.name = "dev"
    /\ last.pane_id = "%4"
    /\ last.stable_pane = ""
    /\ Cardinality(last.before) = 2
    /\ \A r \in last.before : r.stable_pane = ""
    /\ agents = last.before
    /\ NaiveGone = last.before

\* C34: a row whose stable_pane is NULL is not matched by a comparison of
\* stable_pane with the empty string: a DELETE made with an empty
\* stable_pane removes such a row only for its name or its pane_id.
C34_NullNotMatchedByEmpty ==
    (last.op = "delete" /\ last.stable_pane = "") =>
        \A r \in GuardedGone :
            r.stable_pane = NULL =>
                \/ r.name = last.name
                \/ (Truthy(last.pane_id) /\ r.pane_id = last.pane_id)

C34_Witness ==
    /\ last.op = "delete"
    /\ last.stable_pane = ""
    /\ last.name = "dev"
    /\ \E r \in agents : r.stable_pane = NULL /\ r.name = "alice"
    /\ \E r \in GuardedGone : r.name = "bob" /\ r.pane_id = "%4"

\* C35: a deregister call writes its LEFT entry only when it removed the
\* row itself, so that one registration of a name leaves at most one LEFT
\* entry, also when deregister calls for the name overlap.
C35_OneLeftPerRegistration ==
    [][\A c \in Slots :
          (/\ calls[c].op = "deregister"
           /\ Len(messages') = Len(messages) + 1
           /\ messages'[Len(messages')].type = "LEFT"
           /\ calls[c].pc = "log"
           /\ calls'[c].pc = "done")
              => calls[c].removed]_vars

\* C31: every tool response carries _meta (chars, lines, ms), the error
\* responses as well as the successful ones, and every tool call records
\* exactly one tool-metric entry.
C31_MetaAndOneMetric ==
    last.op = "tool" =>
        /\ last.meta
        /\ Len(last.metrics) = started

\* C32: the text handed to snd is "[{name}] {message}" for a broadcast,
\* "[DM from {name}] {message}" for a direct message and
\* "[#{channel}] {name}: {message}" for a channel message, with the name
\* the caller gave, and every delivery of one call gets the same text.
C32_DeliveredText ==
    \A c \in Slots :
        LET k == calls[c] IN
        /\ Len(k.texts) = Len(k.attempts)
        /\ \A i \in DOMAIN k.texts :
              /\ k.op = "broadcast" =>
                    k.texts[i] = <<"[", k.name, "] ", k.message>>
              /\ k.op = "dm" =>
                    k.texts[i] = <<"[DM from ", k.name, "] ", k.message>>
              /\ k.op = "channel" =>
                    k.texts[i] = <<"[#", k.to, "] ", k.name, ": ", k.message>>
              /\ k.texts[i] = k.texts[1]

C32_Witness ==
    \E c \in Slots :
        /\ started = 2
        /\ calls[c].op = "broadcast"
        /\ Len(calls[c].texts) = 2
        /\ calls[c].message = "[bob] hi"
        /\ calls[c].texts[2] = <<"[", "alice", "] ", "[bob] hi">>
        /\ Len(messages) = 2
        /\ messages[1].type = "DM"

\* the error outcomes of agent_broadcast and agent_dm
ErrorOutcomes ==
    {"NotRegistered", "TargetNotFound", "NoDeliverableAddress",
     "NoAgentsInGroup", "NoOtherAgents"}

\* C38: a broadcast or direct message that returns an error outcome has
\* written no message-log entry, attempted no delivery and left the
\* directory as it was: the call returns in the step in which it started,
\* and that step changes neither table nor the sequence.
C38_ErrorHasNoEffect ==
    [][\A c \in Slots :
          (/\ calls'[c] # calls[c]
           /\ calls'[c].pc = "done"
           /\ calls'[c].op \in {"broadcast", "dm"}
           /\ calls'[c].result \in ErrorOutcomes)
              => /\ ~InFlight(c)
                 /\ messages' = messages
                 /\ msg_seq' = msg_seq
                 /\ agents' = agents
                 /\ calls'[c].attempts = <<>>]_vars

C38_Witness ==
    \E c \in Slots :
        /\ calls[c].op = "dm"
        /\ calls[c].pc = "done"
        /\ calls[c].result = "NoDeliverableAddress"
        /\ started = 2
        /\ Len(messages) = 1
        /\ messages[1].type = "CHANNEL"

\* C40: the result of a broadcast with targets has one outcome line per
\* target, success or failure, in the order of the delivery attempts, and
\* the number of agents it reports is the number of its outcome lines. The
\* result is made of count and results as they are when the loop is over.
C40_OneLinePerTarget ==
    \A c \in Slots :
        LET k == calls[c] IN
        (k.op = "broadcast" /\ k.pc = "loop") =>
            /\ k.count > 0
            /\ Len(k.results) + Cardinality(k.inflight) = Len(k.attempts)
            /\ \A i \in DOMAIN k.results : k.results[i][1] = k.attempts[i][1]
            /\ \A i, j \in DOMAIN k.results :
                  i # j => k.results[i][1] # k.results[j][1]
            /\ \A i \in DOMAIN k.results :
                  \E a \in agents : a.name = k.results[i][1] /\ a.name # k.name
            /\ Len(k.results) + Cardinality(k.inflight) + Len(k.queue) = k.count
            /\ LoopOver(k) => Len(k.results) = k.count

C40_Witness ==
    \E c \in Slots :
        /\ calls[c].op = "broadcast"
        /\ LoopOver(calls[c])
        /\ calls[c].count = 3
        /\ Len(calls[c].results) = 3
        /\ ~calls[c].results[1][2]
        /\ calls[c].results[2][2]
        /\ ~calls[c].results[3][2]

\* C36: a poller that calls messages_since with the last_id of its previous
\* call receives every logged message exactly once: no message of the log
\* lies at or below the poller's last_id without having been received, and
\* no message is received twice.
C36_PollerSeesEveryMessage ==
    last.op = "poll" =>
        /\ \A i \in DOMAIN messages :
              messages[i].id <= last.last_id =>
                  \E j \in DOMAIN last.received :
                      last.received[j] = messages[i].id
        /\ \A i, j \in DOMAIN last.received :
              i # j => last.received[i] # last.received[j]

\* C37: no delivery is started towards an agent whose deregistration has
\* completed: the target of every delivery that a broadcast or channel
\* post starts still has its row in the directory.
C37_NoDeliveryAfterLeave ==
    [][\A c \in Slots :
          (/\ calls[c].pc = "loop"
           /\ calls'[c].pc = "loop"
           /\ Len(calls'[c].attempts) = Len(calls[c].attempts) + 1)
              => \E r \in agents :
                    r.name = calls'[c].attempts[Len(calls'[c].attempts)][1]]_vars

\* the name an agent id was made for: ids are `${name}-${suffix}`
NameOf(id) == id[1]

\* C39: the DMs exchanged between two names stay retrievable through
\* dm_history for those names after either agent has deregistered and
\* registered again under its name: every DM of the log between the two
\* names is among the rows returned, when the limit does not cut.
C39_DmHistoryAcrossRejoin ==
    [][(/\ last' # last
        /\ last'.op = "dm_history"
        /\ last'.limit >= Len(messages)
        /\ \A n \in {last'.name, last'.with} : \E r \in agents : r.name = n)
          => \A i \in DOMAIN messages :
                (/\ messages[i].type = "DM"
                 /\ {NameOf(messages[i].from_agent),
                     NameOf(messages[i].to_agent)} = {last'.name, last'.with})
                    => \E j \in DOMAIN last'.rows :
                          last'.rows[j] = messages[i]]_vars

====
